---- MODULE Spec2Model ----
(***************************************************************************)
(* Model of image_create.py: the module-level sanitizing of the inset      *)
(* arguments, main() (background x subject x variation loops, save and     *)
(* annotation bookkeeping, image handles) and the helpers                  *)
(* scaleToBackground and placeOnBackground.                                *)
(*                                                                         *)
(* Conventions.  A Python value that may be None is a sequence: <<>> is    *)
(* None and <<v>> is the value v.  A Python str is a sequence of           *)
(* one-character strings, so that split, rstrip, lower and join are        *)
(* computed character by character.                                        *)
(***************************************************************************)
EXTENDS Integers, Sequences, FiniteSets, TLC

VARIABLES
    args,            \* the parsed command line (argparse namespace)
    warnings,        \* sides for which "Ignoring ... inset" was logged
    background_dir,  \* os.listdir(background_dir): files [name, size]
    subj_dir,        \* os.listdir(subj_dir): files [name, size]
    pc,              \* position in the script
    insets,          \* main(): (top, right, bottom, left)
    bi, si, i,       \* loop positions: background, subject, variation
    bkgd_p, subj_p,  \* open background / subject image [id, size]
    bkgd_file, bkgd_ext, subj_file,  \* stripped names
    subj_tmp,        \* the subject as pasted (scaled copy or subj_p)
    ano,             \* the annotation of the current variation
    pos,             \* (pos_x, pos_y) returned by placeOnBackground
    bkgd_tmp,        \* the per-variation background copy
    annotations,     \* main(): the annotation list
    saved,           \* composite files written to dest_dir, in order
    written,         \* content of annotations.json (None until written)
    open,            \* ids of image handles opened and not yet closed
    nexth,           \* next fresh handle id
    err              \* the exception that ended the run, "" when none

vars == <<args, warnings, background_dir, subj_dir, pc, insets, bi, si, i,
          bkgd_p, subj_p, bkgd_file, bkgd_ext, subj_file, subj_tmp, ano, pos,
          bkgd_tmp, annotations, saved, written, open, nexth, err>>

-----------------------------------------------------------------------------
(* Bounds of the model *)

MaxFiles == 2        \* files listed per image directory (batch inputs)
MaxVariations == 2   \* largest --variations (batch inputs)
MaxScaled == 2       \* most variations of a batch run that scales
MaxBkgdDim == 3      \* largest background width/height (geometry inputs)
MaxSubjDim == 2      \* largest subject width/height (geometry inputs)
MaxBox == 12         \* largest rendered box side (inset inputs)

-----------------------------------------------------------------------------
(* Program constants *)

SCALE_MAX == 80
SCALE_MIN == 5
TOP == 0
RIGHT == 1
BOTTOM == 2
LEFT == 3

-----------------------------------------------------------------------------
(* Values *)

None == <<>>
Some(v) == <<v>>
\* Python truthiness of an int-or-None argument: None and 0 are false.
Truthy(o) == o # None /\ o[1] # 0

NoImage == [id |-> 0, size |-> <<0, 0>>]

Min(S) == CHOOSE m \in S : \A n \in S : m <= n

-----------------------------------------------------------------------------
(* Float arithmetic of the helpers.  int((p / 100) * n) is computed in     *)
(* IEEE doubles: it equals floor(p*n/100) except where the rounded product *)
(* falls just below an integer.  PctShort lists those arguments for        *)
(* 1 <= p <= 99, 0 <= n <= 128; WidthShort lists the arguments             *)
(* (subj_w, subj_h, bkgd_h, percent) with sides up to 9 for which          *)
(* int(subj_w * (bkgd_h * scale) / subj_h) is one below the exact floor.   *)

PctShort == {<<29, 100>>, <<57, 100>>, <<58, 50>>, <<58, 100>>, <<70, 90>>}

\* int((p / 100) * n)
PctOf(p, n) == ((p * n) \div 100) - (IF <<p, n>> \in PctShort THEN 1 ELSE 0)

WidthShort == {<<5, 1, 6, 70>>, <<5, 3, 6, 70>>, <<5, 7, 6, 70>>,
               <<5, 1, 9, 60>>, <<5, 3, 9, 60>>, <<5, 9, 9, 60>>}

\* int(subj_w * (bkgd_h * scale) / subj_h), scale = percent / 100
ScaledWidth(sw, sh, bh, percent) ==
    ((sw * bh * percent) \div (100 * sh))
        - (IF <<sw, sh, bh, percent>> \in WidthShort THEN 1 ELSE 0)

\* int(bkgd_h * scale)
ScaledHeight(bh, percent) == PctOf(percent, bh)

-----------------------------------------------------------------------------
(* String helpers *)

CharsOf(s) == {s[k] : k \in 1..Len(s)}

\* s.split(".")[-1]
LastField(s) ==
    LET dots == {k \in 1..Len(s) : s[k] = "."}
        last == IF dots = {} THEN 0 ELSE CHOOSE k \in dots : \A m \in dots : m <= k
    IN  SubSeq(s, last + 1, Len(s))

\* s.rstrip(chars): drops trailing characters that occur in chars
RECURSIVE RStrip(_, _)
RStrip(s, chars) ==
    IF Len(s) > 0 /\ s[Len(s)] \in chars
    THEN RStrip(SubSeq(s, 1, Len(s) - 1), chars)
    ELSE s

\* file.rstrip("." + ext)
StripExt(file, ext) == RStrip(file, {"."} \cup CharsOf(ext))

LowerChar(c) ==
    CASE c = "P" -> "p" [] c = "N" -> "n" [] c = "G" -> "g"
      [] c = "J" -> "j" [] OTHER -> c

\* s.lower()
Lower(s) == [k \in 1..Len(s) |-> LowerChar(s[k])]

Digits == <<"0", "1", "2", "3", "4", "5", "6", "7", "8", "9">>

\* str(n) for n >= 0
RECURSIVE Str(_)
Str(n) ==
    IF n < 10 THEN <<Digits[n + 1]>>
    ELSE Str(n \div 10) \o <<Digits[(n % 10) + 1]>>

\* gen_ext and gen_filename of one variation
GenExt(output_fmt, ext) == IF Len(output_fmt) > 0 THEN Lower(output_fmt) ELSE ext

GenFilename(sfile, bfile, n, gen_ext) ==
    sfile \o <<".">> \o bfile \o <<".">> \o Str(n) \o <<".">> \o gen_ext

-----------------------------------------------------------------------------
(* Module-level code: sanitize insets *)

\* args.inset_X and (args.inset_X > 99 or args.inset_X < 1)
InsetRejected(v) == Truthy(v) /\ (v[1] > 99 \/ v[1] < 1)

Sanitized(v) == IF InsetRejected(v) THEN None ELSE v

SanitizeInsets ==
    /\ pc = "args"
    /\ warnings' = {side \in {"top", "right", "bottom", "left"} :
                      InsetRejected(CASE side = "top" -> args.inset_top
                                      [] side = "right" -> args.inset_right
                                      [] side = "bottom" -> args.inset_bottom
                                      [] side = "left" -> args.inset_left)}
    /\ args' = [args EXCEPT !.inset_top = Sanitized(@),
                            !.inset_right = Sanitized(@),
                            !.inset_bottom = Sanitized(@),
                            !.inset_left = Sanitized(@)]
    /\ pc' = "main"
    /\ UNCHANGED <<background_dir, subj_dir, insets, bi, si, i, bkgd_p, subj_p,
                   bkgd_file, bkgd_ext, subj_file, subj_tmp, ano, pos, bkgd_tmp,
                   annotations, saved, written, open, nexth, err>>

-----------------------------------------------------------------------------
(* Helpers: the annotation part of scaleToBackground and placeOnBackground *)

\* the annotation template of main()
ano_tmp ==
    [label |-> args.label,
     coordinates |-> [y |-> None, x |-> None, width |-> None, height |-> None],
     imagefilename |-> None]

\* (mutation of InsetBox: each inset is added instead of subtracted)
InsetBox_grows(w, h, ins) ==
    LET w1 == IF Truthy(ins[RIGHT + 1]) THEN w + PctOf(ins[RIGHT + 1][1], w) ELSE w
        w2 == IF Truthy(ins[LEFT + 1]) THEN w1 + PctOf(ins[LEFT + 1][1], w1) ELSE w1
        h1 == IF Truthy(ins[TOP + 1]) THEN h + PctOf(ins[TOP + 1][1], h) ELSE h
        h2 == IF Truthy(ins[BOTTOM + 1]) THEN h1 + PctOf(ins[BOTTOM + 1][1], h1) ELSE h1
    IN  <<w2, h2>>

\* scaleToBackground, "update annotation": right, then left on the shrunk
\* width; top, then bottom on the shrunk height
InsetBox(w, h, ins) ==
    LET w1 == IF Truthy(ins[RIGHT + 1]) THEN w - PctOf(ins[RIGHT + 1][1], w) ELSE w
        w2 == IF Truthy(ins[LEFT + 1]) THEN w1 - PctOf(ins[LEFT + 1][1], w1) ELSE w1
        h1 == IF Truthy(ins[TOP + 1]) THEN h - PctOf(ins[TOP + 1][1], h) ELSE h
        h2 == IF Truthy(ins[BOTTOM + 1]) THEN h1 - PctOf(ins[BOTTOM + 1][1], h1) ELSE h1
    IN  <<w2, h2>>

\* (mutation of PlaceRange: the subject's size is not subtracted)
PlaceRange_whole(bkgd, subj) == 0..bkgd

\* placeOnBackground: the range of random.randint(0, bkgd - subj)
PlaceRange(bkgd, subj) == 0..(bkgd - subj)

\* placeOnBackground, "update annotation": the recorded (x, y)
InsetPos(x, y, w, h, ins) ==
    LET x1 == IF Truthy(ins[LEFT + 1]) THEN x + PctOf(ins[LEFT + 1][1], w) ELSE x
        y1 == IF Truthy(ins[TOP + 1]) THEN y - PctOf(ins[TOP + 1][1], h) ELSE y
    IN  <<x1, y1>>

-----------------------------------------------------------------------------
(* main() *)

MainStart ==
    /\ pc = "main"
    /\ annotations' = <<>>
    /\ insets' = <<args.inset_top, args.inset_right, args.inset_bottom,
                   args.inset_left>>
    /\ bi' = 1
    /\ pc' = "bkgd"
    /\ UNCHANGED <<args, warnings, background_dir, subj_dir, si, i, bkgd_p,
                   subj_p, bkgd_file, bkgd_ext, subj_file, subj_tmp, ano, pos,
                   bkgd_tmp, saved, written, open, nexth, err>>

\* Image.open, then convertColorTemperature when --color-temp is given: the
\* converted image is a new handle and the opened one is closed.
Opened(file) ==
    IF Truthy(args.color_temp)
    THEN [img |-> [id |-> nexth + 1, size |-> file.size], fresh |-> 2,
          kept |-> {nexth + 1}]
    ELSE [img |-> [id |-> nexth, size |-> file.size], fresh |-> 1,
          kept |-> {nexth}]

OpenBackground ==
    /\ pc = "bkgd"
    /\ bi <= Len(background_dir)
    /\ LET file == background_dir[bi]
           o == Opened(file)
           ext == LastField(file.name)
       IN  /\ bkgd_p' = o.img
           /\ open' = open \cup o.kept
           /\ nexth' = nexth + o.fresh
           /\ bkgd_ext' = ext
           /\ bkgd_file' = StripExt(file.name, ext)
    /\ si' = 1
    /\ pc' = "subj"
    /\ UNCHANGED <<args, warnings, background_dir, subj_dir, insets, bi, i,
                   subj_p, subj_file, subj_tmp, ano, pos, bkgd_tmp, annotations,
                   saved, written, err>>

WriteAnnotations ==
    /\ pc = "bkgd"
    /\ bi > Len(background_dir)
    /\ written' = Some(annotations)
    /\ pc' = "done"
    /\ UNCHANGED <<args, warnings, background_dir, subj_dir, insets, bi, si, i,
                   bkgd_p, subj_p, bkgd_file, bkgd_ext, subj_file, subj_tmp, ano,
                   pos, bkgd_tmp, annotations, saved, open, nexth, err>>

OpenSubject ==
    /\ pc = "subj"
    /\ si <= Len(subj_dir)
    /\ LET file == subj_dir[si]
           o == Opened(file)
       IN  /\ subj_p' = o.img
           /\ open' = open \cup o.kept
           /\ nexth' = nexth + o.fresh
           /\ subj_file' = StripExt(file.name, LastField(file.name))
    /\ i' = 0
    /\ pc' = "var"
    /\ UNCHANGED <<args, warnings, background_dir, subj_dir, insets, bi, si,
                   bkgd_p, bkgd_file, bkgd_ext, subj_tmp, ano, pos, bkgd_tmp,
                   annotations, saved, written, err>>

CloseBackground ==
    /\ pc = "subj"
    /\ si > Len(subj_dir)
    /\ open' = open \ {bkgd_p.id}
    /\ bi' = bi + 1
    /\ pc' = "bkgd"
    /\ UNCHANGED <<args, warnings, background_dir, subj_dir, insets, si, i,
                   bkgd_p, subj_p, bkgd_file, bkgd_ext, subj_file, subj_tmp, ano,
                   pos, bkgd_tmp, annotations, saved, written, nexth, err>>

StartVariation ==
    /\ pc = "var"
    /\ i < args.variations
    /\ ano' = [ano_tmp EXCEPT !.imagefilename =
                 Some(GenFilename(subj_file, bkgd_file, i,
                                  GenExt(args.output_fmt, bkgd_ext)))]
    /\ subj_tmp' = subj_p
    /\ pc' = "scale"
    /\ UNCHANGED <<args, warnings, background_dir, subj_dir, insets, bi, si, i,
                   bkgd_p, subj_p, bkgd_file, bkgd_ext, subj_file, pos, bkgd_tmp,
                   annotations, saved, written, open, nexth, err>>

CloseSubject ==
    /\ pc = "var"
    /\ i >= args.variations
    /\ open' = open \ {subj_p.id}
    /\ si' = si + 1
    /\ pc' = "subj"
    /\ UNCHANGED <<args, warnings, background_dir, subj_dir, insets, bi, i,
                   bkgd_p, subj_p, bkgd_file, bkgd_ext, subj_file, subj_tmp, ano,
                   pos, bkgd_tmp, annotations, saved, written, nexth, err>>

SkipScale ==
    /\ pc = "scale"
    /\ args.no_scale
    /\ pc' = "place"
    /\ UNCHANGED <<args, warnings, background_dir, subj_dir, insets, bi, si, i,
                   bkgd_p, subj_p, bkgd_file, bkgd_ext, subj_file, subj_tmp, ano,
                   pos, bkgd_tmp, annotations, saved, written, open, nexth, err>>

\* scaleToBackground: the resized copy is a new handle; the annotation gets
\* the inset-adjusted width and height.
ScaleSubject ==
    /\ pc = "scale"
    /\ ~args.no_scale
    /\ \E percent \in SCALE_MIN..SCALE_MAX :
         LET w == ScaledWidth(subj_p.size[1], subj_p.size[2], bkgd_p.size[2], percent)
             h == ScaledHeight(bkgd_p.size[2], percent)
             box == InsetBox(w, h, insets)
         IN  /\ subj_tmp' = [id |-> nexth, size |-> <<w, h>>]
             /\ ano' = [ano EXCEPT !.coordinates.width = Some(box[1]),
                                   !.coordinates.height = Some(box[2])]
    /\ open' = open \cup {nexth}
    /\ nexth' = nexth + 1
    /\ pc' = "place"
    /\ UNCHANGED <<args, warnings, background_dir, subj_dir, insets, bi, si, i,
                   bkgd_p, subj_p, bkgd_file, bkgd_ext, subj_file, pos, bkgd_tmp,
                   annotations, saved, written, err>>

\* subj_p.resize with an empty target size: the imaging library may reject
\* it with ValueError, which main() does not catch.
ResizeFails ==
    /\ pc = "scale"
    /\ ~args.no_scale
    /\ \E percent \in SCALE_MIN..SCALE_MAX :
         \/ ScaledWidth(subj_p.size[1], subj_p.size[2], bkgd_p.size[2], percent) = 0
         \/ ScaledHeight(bkgd_p.size[2], percent) = 0
    /\ err' = "resize"
    /\ pc' = "aborted"
    /\ UNCHANGED <<args, warnings, background_dir, subj_dir, insets, bi, si, i,
                   bkgd_p, subj_p, bkgd_file, bkgd_ext, subj_file, subj_tmp, ano,
                   pos, bkgd_tmp, annotations, saved, written, open, nexth>>

\* placeOnBackground, then bkgd_p.copy() and paste
Place ==
    /\ pc = "place"
    /\ \E x \in PlaceRange(bkgd_p.size[1], subj_tmp.size[1]) :
       \E y \in PlaceRange(bkgd_p.size[2], subj_tmp.size[2]) :
         LET a == InsetPos(x, y, subj_tmp.size[1], subj_tmp.size[2], insets)
         IN  /\ pos' = <<x, y>>
             /\ ano' = [ano EXCEPT !.coordinates.x = Some(a[1]),
                                   !.coordinates.y = Some(a[2])]
    /\ bkgd_tmp' = [id |-> nexth, size |-> bkgd_p.size]
    /\ open' = open \cup {nexth}
    /\ nexth' = nexth + 1
    /\ pc' = "save"
    /\ UNCHANGED <<args, warnings, background_dir, subj_dir, insets, bi, si, i,
                   bkgd_p, subj_p, bkgd_file, bkgd_ext, subj_file, subj_tmp,
                   annotations, saved, written, err>>

\* random.randint(0, negative) raises ValueError, which main() does not catch
PlaceFails ==
    /\ pc = "place"
    /\ \/ bkgd_p.size[1] - subj_tmp.size[1] < 0
       \/ bkgd_p.size[2] - subj_tmp.size[2] < 0
    /\ err' = "placement"
    /\ pc' = "aborted"
    /\ UNCHANGED <<args, warnings, background_dir, subj_dir, insets, bi, si, i,
                   bkgd_p, subj_p, bkgd_file, bkgd_ext, subj_file, subj_tmp, ano,
                   pos, bkgd_tmp, annotations, saved, written, open, nexth>>

\* the finally clause: close the temporary images
ClosedTemps == {bkgd_tmp.id} \cup (IF subj_tmp # subj_p THEN {subj_tmp.id} ELSE {})

SaveOk ==
    /\ pc = "save"
    /\ saved' = Append(saved, [b |-> bi, s |-> si, n |-> i,
                               file |-> ano.imagefilename[1]])
    /\ annotations' = Append(annotations, ano)
    /\ open' = open \ ClosedTemps
    /\ i' = i + 1
    /\ pc' = "var"
    /\ UNCHANGED <<args, warnings, background_dir, subj_dir, insets, bi, si,
                   bkgd_p, subj_p, bkgd_file, bkgd_ext, subj_file, subj_tmp, ano,
                   pos, bkgd_tmp, written, nexth, err>>

\* (mutation of SaveFails: the annotation is appended before the save is tried)
SaveFails_appends ==
    /\ pc = "save"
    /\ annotations' = Append(annotations, ano)
    /\ open' = open \ ClosedTemps
    /\ i' = i + 1
    /\ pc' = "var"
    /\ UNCHANGED <<args, warnings, background_dir, subj_dir, insets, bi, si,
                   bkgd_p, subj_p, bkgd_file, bkgd_ext, subj_file, subj_tmp, ano,
                   pos, bkgd_tmp, saved, written, nexth, err>>

\* (mutation of SaveFails: the exception is not caught and ends the run)
SaveFails_raises ==
    /\ pc = "save"
    /\ open' = open \ ClosedTemps
    /\ err' = "save"
    /\ pc' = "aborted"
    /\ UNCHANGED <<args, warnings, background_dir, subj_dir, insets, bi, si, i,
                   bkgd_p, subj_p, bkgd_file, bkgd_ext, subj_file, subj_tmp, ano,
                   pos, bkgd_tmp, annotations, saved, written, nexth>>

\* bkgd_tmp.save raised ValueError or OSError: both handlers only log
SaveFails ==
    /\ pc = "save"
    /\ \E e \in {"ValueError", "OSError"} :
         /\ open' = open \ ClosedTemps
         /\ i' = i + 1
         /\ pc' = "var"
    /\ UNCHANGED <<args, warnings, background_dir, subj_dir, insets, bi, si,
                   bkgd_p, subj_p, bkgd_file, bkgd_ext, subj_file, subj_tmp, ano,
                   pos, bkgd_tmp, annotations, saved, written, nexth, err>>

Next ==
    \/ SanitizeInsets
    \/ MainStart
    \/ OpenBackground
    \/ WriteAnnotations
    \/ OpenSubject
    \/ CloseBackground
    \/ StartVariation
    \/ CloseSubject
    \/ SkipScale
    \/ ScaleSubject
    \/ ResizeFails
    \/ Place
    \/ PlaceFails
    \/ SaveOk
    \/ SaveFails

-----------------------------------------------------------------------------
(* Inputs *)

File(name, w, h) == [name |-> name, size |-> <<w, h>>]

RECURSIVE Pick(_, _)
Pick(pool, idx) ==
    IF idx = {} THEN <<>>
    ELSE <<pool[Min(idx)]>> \o Pick(pool, idx \ {Min(idx)})

\* directory listings: the sub-listings of pool with at most n files
Listings(pool, n) ==
    {Pick(pool, idx) : idx \in {s \in SUBSET (1..Len(pool)) : Cardinality(s) <= n}}

Args(top, right, bottom, left, no_scale, fmt, temp, n) ==
    [label |-> "subject", inset_top |-> top, inset_right |-> right,
     inset_bottom |-> bottom, inset_left |-> left, no_scale |-> no_scale,
     output_fmt |-> fmt, color_temp |-> temp, variations |-> n]

\* the variables main() has not yet assigned
Fresh ==
    /\ warnings = {}
    /\ bi = 0 /\ si = 0 /\ i = 0
    /\ bkgd_p = NoImage /\ subj_p = NoImage /\ bkgd_tmp = NoImage
    /\ bkgd_file = <<>> /\ bkgd_ext = <<>> /\ subj_file = <<>>
    /\ ano = [label |-> "subject",
              coordinates |-> [y |-> None, x |-> None, width |-> None,
                               height |-> None],
              imagefilename |-> None]
    /\ pos = <<0, 0>>
    /\ annotations = <<>>
    /\ saved = <<>>
    /\ written = None
    /\ open = {}
    /\ nexth = 1
    /\ err = ""

\* the state when the script starts, for a command line and two directories
Start(a, bdir, sdir) ==
    /\ args = a
    /\ background_dir = bdir
    /\ subj_dir = sdir
    /\ pc = "args"
    /\ insets = <<None, None, None, None>>
    /\ subj_tmp = NoImage
    /\ Fresh

BkgdPool ==
    << File(<<"r","o","o","m",".","j","p","g">>, 1, 1),
       File(<<"r","o","o","m",".","p","n","g">>, 1, 1) >>

SubjPool ==
    << File(<<"p","a","n",".","p","n","g">>, 1, 1),
       File(<<"p","a",".","p","n","g">>, 1, 1),
       File(<<"p","a",".","j","p","g">>, 2, 1) >>

\* batch inputs: several tiny files, no insets; a run that scales (and so
\* draws a size and a position per variation) is kept to MaxScaled variations
Init ==
    \E no_scale \in BOOLEAN, fmt \in {<<>>, <<"P","N","G">>},
       temp \in {None, Some(6500)}, n \in 0..MaxVariations,
       bdir \in Listings(BkgdPool, MaxFiles), sdir \in Listings(SubjPool, MaxFiles) :
        /\ no_scale \/ Len(bdir) * Len(sdir) * n <= MaxScaled
        /\ Start(Args(None, None, None, None, no_scale, fmt, temp, n), bdir, sdir)

Spec == Init /\ [][Next]_vars

\* geometry inputs: one background, one subject, one variation, valid insets
InitGeom ==
    \E top \in {None, Some(50)}, right \in {None, Some(50)},
       bottom \in {None, Some(50)}, left \in {None, Some(50)},
       no_scale \in BOOLEAN,
       bw \in 1..MaxBkgdDim, bh \in 1..MaxBkgdDim,
       sw \in 1..MaxSubjDim, sh \in 1..MaxSubjDim :
        Start(Args(top, right, bottom, left, no_scale, <<>>, None, 1),
              << File(<<"r","o","o","m",".","j","p","g">>, bw, bh) >>,
              << File(<<"c","a","t",".","p","n","g">>, sw, sh) >>)

SpecGeom == InitGeom /\ [][Next]_vars

\* command-line inputs: every inset option absent, invalid or valid
InsetArgs == {None, Some(-1), Some(0), Some(50), Some(100)}

InitArgs ==
    \E top \in InsetArgs, right \in InsetArgs, bottom \in InsetArgs,
       left \in InsetArgs, no_scale \in BOOLEAN :
        Start(Args(top, right, bottom, left, no_scale, <<>>, None, 1),
              << File(<<"r","o","o","m",".","j","p","g">>, 3, 3) >>,
              << File(<<"c","a","t",".","p","n","g">>, 2, 1) >>)

SpecArgs == InitArgs /\ [][Next]_vars

-----------------------------------------------------------------------------------------------------------------------------------------------------
(* The inset adjustment of scaleToBackground on its own: one inset option   *)
(* with a valid percentage, applied to a rendered box (w, h).               *)

OneInset(side, p) == [k \in 1..4 |-> IF k = side + 1 THEN Some(p) ELSE None]

InitInset ==
    \E side \in {TOP, RIGHT, BOTTOM, LEFT}, p \in 1..99,
       w \in 1..MaxBox, h \in 1..MaxBox :
        LET ins == OneInset(side, p)
        IN  /\ args = Args(ins[TOP + 1], ins[RIGHT + 1], ins[BOTTOM + 1],
                           ins[LEFT + 1], FALSE, <<>>, None, 1)
            /\ background_dir = <<>>
            /\ subj_dir = <<>>
            /\ pc = "inset"
            /\ insets = ins
            /\ subj_tmp = [id |-> 1, size |-> <<w, h>>]
            /\ Fresh

ApplyInsets ==
    /\ pc = "inset"
    /\ LET box == InsetBox(subj_tmp.size[1], subj_tmp.size[2], insets)
       IN  ano' = [ano EXCEPT !.coordinates.width = Some(box[1]),
                              !.coordinates.height = Some(box[2])]
    /\ pc' = "insetDone"
    /\ UNCHANGED <<args, warnings, background_dir, subj_dir, insets, bi, si, i,
                   bkgd_p, subj_p, bkgd_file, bkgd_ext, subj_file, subj_tmp, pos,
                   bkgd_tmp, annotations, saved, written, open, nexth, err>>

NextInset == ApplyInsets

SpecInset == InitInset /\ [][NextInset]_vars

-----------------------------------------------------------------------------
(* Properties *)

\* sizes of the subject as pasted and of the background
SubjW == subj_tmp.size[1]
SubjH == subj_tmp.size[2]
BkgdW == bkgd_p.size[1]
BkgdH == bkgd_p.size[2]

\* the shifts placeOnBackground applies to the recorded position
LeftShift == IF Truthy(insets[LEFT + 1]) THEN PctOf(insets[LEFT + 1][1], SubjW) ELSE 0
TopShift == IF Truthy(insets[TOP + 1]) THEN PctOf(insets[TOP + 1][1], SubjH) ELSE 0

\* the number of (background, subject, variation) combinations of the run
Combinations == Len(background_dir) * Len(subj_dir) * args.variations

\* C1 (as claimed): once placeOnBackground has filled in the annotation of a
\* variation, the recorded x lies in [0, bkgd_w - subj_w] and the recorded y in
\* [0, bkgd_h - subj_h], whatever the insets.
C1_RecordedInRange ==
    pc = "save" =>
        /\ ano.coordinates.x[1] \in 0..(BkgdW - SubjW)
        /\ ano.coordinates.y[1] \in 0..(BkgdH - SubjH)

\* C1 (amended): the paste position lies in [0, bkgd_w - subj_w] x
\* [0, bkgd_h - subj_h]; the recorded x is the paste x plus the left inset's
\* share of the subject width and the recorded y is the paste y minus the top
\* inset's share of the subject height, so with neither inset the recorded
\* position lies in those ranges too.
C1_PasteInRange ==
    pc = "save" =>
        /\ pos[1] \in 0..(BkgdW - SubjW)
        /\ pos[2] \in 0..(BkgdH - SubjH)
        /\ ano.coordinates.x[1] \in LeftShift..(BkgdW - SubjW + LeftShift)
        /\ ano.coordinates.y[1] \in (0 - TopShift)..(BkgdH - SubjH - TopShift)
        /\ (~Truthy(insets[LEFT + 1]) => ano.coordinates.x[1] \in 0..(BkgdW - SubjW))
        /\ (~Truthy(insets[TOP + 1]) => ano.coordinates.y[1] \in 0..(BkgdH - SubjH))

\* C1 witness: a left inset has moved a recorded x past bkgd_w - subj_w
C1_Witness ==
    /\ pc = "save"
    /\ Truthy(insets[LEFT + 1])
    /\ ano.coordinates.x[1] > BkgdW - SubjW
    /\ pos[1] = BkgdW - SubjW

\* C2: every annotation of the written document has integer x, y, width and
\* height (none is None), also with --no-scale.
C2_AllCoordinatesSet ==
    written # None =>
        \A k \in 1..Len(written[1]) :
            LET c == written[1][k].coordinates
            IN  c.x # None /\ c.y # None /\ c.width # None /\ c.height # None

\* C3: the annotation list holds one entry per composite image that was saved,
\* in order and under its file name, no two for the same (background, subject,
\* variation), and never more than backgrounds x subjects x variations.
C3_OneAnnotationPerSavedImage ==
    /\ Len(annotations) = Len(saved)
    /\ \A k \in 1..Len(saved) :
          k <= Len(annotations) => annotations[k].imagefilename = Some(saved[k].file)
    /\ \A j, k \in 1..Len(saved) :
          j # k => <<saved[j].b, saved[j].s, saved[j].n>>
                     # <<saved[k].b, saved[k].s, saved[k].n>>
    /\ (pc \notin {"args", "inset", "insetDone"} => Len(annotations) <= Combinations)

\* C3 witness: a finished run in which some saves succeeded and some failed
C3_Witness ==
    /\ pc = "done"
    /\ Len(annotations) >= 1
    /\ Len(annotations) < Combinations

\* C4: two different (subject file, background file, variation) combinations
\* never get the same generated file name.
C4_FilenamesUnique ==
    \A j, k \in 1..Len(saved) :
        <<saved[j].b, saved[j].s, saved[j].n>> # <<saved[k].b, saved[k].s, saved[k].n>>
            => saved[j].file # saved[k].file

\* C5: a failed save appends no annotation and goes on with the next
\* variation; no run is ever ended by a save failure; a run that reaches its
\* end has written the annotation list as the document.
C5_SaveFailureSkips ==
    /\ [][(pc = "save" /\ saved' = saved) =>
             /\ annotations' = annotations
             /\ pc' = "var"
             /\ i' = i + 1
             /\ err' = ""]_vars
    /\ [](pc = "aborted" => err \in {"resize", "placement"})
    /\ [](pc = "done" => written = Some(annotations))

\* C5 witness: a run in which every save failed has ended with the (empty)
\* document written
C5_Witness ==
    /\ pc = "done"
    /\ written = Some(<<>>)
    /\ Combinations >= 2

\* the value of an inset option, by side
InsetArg(a, side) ==
    CASE side = "top" -> a.inset_top
      [] side = "right" -> a.inset_right
      [] side = "bottom" -> a.inset_bottom
      [] side = "left" -> a.inset_left

\* C6: every inset given outside 1..99 is warned about and discarded (it then
\* counts as absent).
C6_InvalidInsetWarnedAndDropped ==
    [][pc = "args" =>
          \A side \in {"top", "right", "bottom", "left"} :
              (InsetArg(args, side) # None /\ InsetArg(args, side)[1] \notin 1..99)
                  => /\ side \in warnings'
                     /\ ~Truthy(InsetArg(args', side))]_vars

\* the percentage of the one inset of an inset-only run, by axis
WidthPct ==
    IF Truthy(insets[RIGHT + 1]) THEN insets[RIGHT + 1][1]
    ELSE IF Truthy(insets[LEFT + 1]) THEN insets[LEFT + 1][1] ELSE 0
HeightPct ==
    IF Truthy(insets[TOP + 1]) THEN insets[TOP + 1][1]
    ELSE IF Truthy(insets[BOTTOM + 1]) THEN insets[BOTTOM + 1][1] ELSE 0

\* C7 (as claimed): a left or right inset of p in 1..99 makes the annotation
\* width strictly smaller than w, a top or bottom inset makes the height
\* strictly smaller than h.
C7_StrictlySmaller ==
    pc = "insetDone" =>
        /\ (WidthPct # 0 => ano.coordinates.width[1] < SubjW)
        /\ (HeightPct # 0 => ano.coordinates.height[1] < SubjH)

\* C7 (amended): the adjusted width is never larger than w and is strictly
\* smaller when p * w >= 100 (the inset amounts to at least one pixel);
\* likewise the height.
C7_NeverLarger ==
    pc = "insetDone" =>
        /\ ano.coordinates.width[1] <= SubjW
        /\ ano.coordinates.height[1] <= SubjH
        /\ (WidthPct * SubjW >= 100 => ano.coordinates.width[1] < SubjW)
        /\ (HeightPct * SubjH >= 100 => ano.coordinates.height[1] < SubjH)

\* C7 witness: a left inset that removed at least one pixel column
C7_Witness ==
    /\ pc = "insetDone"
    /\ Truthy(insets[LEFT + 1])
    /\ ano.coordinates.width[1] < SubjW

\* C8: when the run has ended, normally or by an error, no image handle is
\* open, and between variations only the background and the subject are.
C8_AllHandlesClosed ==
    /\ (pc \in {"done", "aborted"} => open = {})
    /\ (pc = "var" => open \subseteq {bkgd_p.id, subj_p.id})

\* C9: with scaling enabled the scaled subject fits the background, and the
\* placement error happens only with --no-scale.
C9_ScaledSubjectFits ==
    /\ (pc = "place" /\ ~args.no_scale => SubjW <= BkgdW /\ SubjH <= BkgdH)
    /\ (err = "placement" => args.no_scale)

\* C10: with scaling enabled the annotated box lies inside the rectangle the
\* subject was pasted into.
C10_BoxInsidePaste ==
    (pc = "save" /\ ~args.no_scale) =>
        /\ pos[1] <= ano.coordinates.x[1]
        /\ pos[2] <= ano.coordinates.y[1]
        /\ ano.coordinates.x[1] + ano.coordinates.width[1] <= pos[1] + SubjW
        /\ ano.coordinates.y[1] + ano.coordinates.height[1] <= pos[2] + SubjH

====
